---- MODULE Spec2Model ----
(***************************************************************************)
(* Model of server.js of the ECU tuning service: the SQLite tables jobs,   *)
(* problem_reports and messages, the express-session store, the express    *)
(* route handlers (one action per database statement together with the     *)
(* callback that consumes its result), and the socket.io rooms.            *)
(***************************************************************************)
EXTENDS Integers, Sequences, FiniteSets, TLC

(* ------------------------------ bounds -------------------------------- *)

\* rows the jobs table may hold
MaxJobs == 2
\* rows the problem_reports table may hold
MaxReports == 2
\* rows the messages table may hold
MaxMessages == 2
\* events io.to(room).emit may record
MaxEvents == 3
\* requests whose handler is between two callbacks at the same time
MaxInFlight == 2
\* registered client accounts (user 1 is the default admin)
NumClients == 2
\* seconds the clock can advance
MaxClock == 2

(* ------------------------------ values -------------------------------- *)

\* SQL NULL in a TEXT column, and JavaScript undefined in a request body
Null == "NULL"
Undef == "undefined"
\* SQL NULL in the INTEGER column vehicle_year
NullInt == -1

AdminId == 1
UserIds == 1 .. (NumClients + 1)
\* the first account registered after the default admin
FirstClient == AdminId + 1
\* the account registered last
LastClient == NumClients + 1
\* browser sessions: session u holds the credentials of user u, session 0
\* holds none
Anonymous == 0
SessionIds == {Anonymous} \cup UserIds
JobIds == 1 .. MaxJobs
ReqIds == 1 .. MaxInFlight

\* req.session.user of a session nobody logged in to
NoUser == [id |-> 0, role |-> "none"]

\* !!x of JavaScript for a form value: undefined and '' are falsy
Truthy(x) == x # Undef /\ x # ""

\* x || '' of JavaScript
OrEmpty(x) == IF Truthy(x) THEN x ELSE ""

\* parseInt on the year strings a form may carry: the leading digits count
ParseInt(s) ==
  CASE s = "2015" -> 2015
    [] s = "2015abc" -> 2015
    [] s = "1999" -> 1999
    [] OTHER -> NullInt

\* JSON.stringify of the options object: its keys in insertion order, each
\* with the JSON text of its value (a literal, or a quoted string)
JSONstringify(o) ==
  << <<"dpf_off", "lit", IF o.dpf_off THEN "true" ELSE "false">>,
     <<"egr_off", "lit", IF o.egr_off THEN "true" ELSE "false">>,
     <<"adblue_off", "lit", IF o.adblue_off THEN "true" ELSE "false">>,
     <<"dtc_off", "lit", IF o.dtc_off THEN "true" ELSE "false">>,
     <<"dtc_codes", "str", o.dtc_codes>>,
     <<"immo_off", "lit", IF o.immo_off THEN "true" ELSE "false">> >>

\* JSON.parse of the text JSON.stringify wrote: the value under key k
JSONvalue(t, k) ==
  LET i == CHOOSE n \in 1 .. Len(t) : t[n][1] = k
  IN IF t[i][2] = "lit" THEN t[i][3] = "true" ELSE t[i][3]

JSONparse(t) ==
  [dpf_off |-> JSONvalue(t, "dpf_off"), egr_off |-> JSONvalue(t, "egr_off"),
   adblue_off |-> JSONvalue(t, "adblue_off"), dtc_off |-> JSONvalue(t, "dtc_off"),
   dtc_codes |-> JSONvalue(t, "dtc_codes"), immo_off |-> JSONvalue(t, "immo_off")]

\* the options object built from a form body
FormOptions(body) ==
  [dpf_off |-> Truthy(body.dpf_off),
   egr_off |-> Truthy(body.egr_off),
   adblue_off |-> Truthy(body.adblue_off),
   dtc_off |-> Truthy(body.dtc_off),
   dtc_codes |-> OrEmpty(body.dtc_codes),
   immo_off |-> Truthy(body.immo_off)]

\* the column values an upload or an edit computes from its form body
FormFields(body) ==
  [options |-> JSONstringify(FormOptions(body)),
   notes |-> OrEmpty(body.notes),
   vehicle_make |-> OrEmpty(body.vehicle_make),
   vehicle_model |-> OrEmpty(body.vehicle_model),
   vehicle_year |-> IF Truthy(body.vehicle_year) THEN ParseInt(body.vehicle_year) ELSE NullInt,
   ecu_controller |-> IF body.ecu_controller = Undef THEN Null ELSE body.ecu_controller]

\* form bodies a browser may post to /upload and /jobs/:id/edit
EmptyForm ==
  [dpf_off |-> Undef, egr_off |-> Undef, adblue_off |-> Undef, dtc_off |-> Undef,
   dtc_codes |-> Undef, immo_off |-> Undef, notes |-> Undef, vehicle_make |-> Undef,
   vehicle_model |-> Undef, vehicle_year |-> Undef, ecu_controller |-> Undef]

FullForm ==
  [dpf_off |-> "on", egr_off |-> Undef, adblue_off |-> Undef, dtc_off |-> "on",
   dtc_codes |-> "P0401", immo_off |-> Undef, notes |-> "stage 1", vehicle_make |-> "VW",
   vehicle_model |-> "Golf", vehicle_year |-> "2015abc", ecu_controller |-> "EDC17"]

Forms == {EmptyForm, FullForm}

\* req.file of an upload: the name multer stored the file under, or no file
NoFile == "nofile"
UploadFiles == {NoFile, "map.bin"}
ProcessedFiles == {NoFile, "p1.bin", "p2.bin"}
ClientMessages == {Undef, "ready"}

\* originalname of the files a browser may upload
FileNames == {"map.bin", "map", "my.map.bin"}

\* name.split('.') on those names
Split(name) ==
  CASE name = "map.bin" -> <<"map", "bin">>
    [] name = "my.map.bin" -> <<"my", "map", "bin">>
    [] OTHER -> <<name>>

\* parts.join('.'): the pieces of the text, a '.' between two parts
RECURSIVE Join(_)
Join(parts) ==
  IF parts = <<>> THEN <<>>
  ELSE IF Len(parts) = 1 THEN parts
  ELSE <<Head(parts), ".">> \o Join(Tail(parts))

\* String.prototype.trim on a text held as a sequence of characters
RECURSIVE TrimLeft(_)
TrimLeft(s) == IF s # <<>> /\ Head(s) = " " THEN TrimLeft(Tail(s)) ELSE s

RECURSIVE TrimRight(_)
TrimRight(s) ==
  IF s # <<>> /\ s[Len(s)] = " " THEN TrimRight(SubSeq(s, 1, Len(s) - 1)) ELSE s

Trim(s) == TrimRight(TrimLeft(s))

\* texts a browser may post as a message or as a problem description;
\* <<>> stands for '' and for a missing field alike (both are falsy)
Texts == {<<>>, <<" ">>, <<" ", "h", "i">>}

(* ------------------------------- state -------------------------------- *)

VARIABLES
  users,      \* users table: id -> role
  sessions,   \* session store: session id -> req.session.user
  jobs,       \* jobs table, row i has id i (AUTOINCREMENT)
  reports,    \* problem_reports table
  messages,   \* messages table
  rooms,      \* socket.io: socket -> the rooms it joined
  emitted,    \* every io.to(room).emit so far, with the sockets it reached
  reqs,       \* the requests in flight and their responses
  now         \* the second CURRENT_TIMESTAMP reads from the clock

vars == <<users, sessions, jobs, reports, messages, rooms, emitted, reqs, now>>


(* ------------------------------ helpers ------------------------------- *)

\* a free slot of the in-flight table; seen is the status the job of an edit,
\* complete or cancel request had when the request came in (an observation,
\* no handler reads it)
Idle ==
  [op |-> "idle", pc |-> "idle", user |-> NoUser, job |-> 0, form |-> EmptyForm,
   file |-> NoFile, text |-> <<>>, seen |-> "none", row |-> Null, last |-> 0,
   list |-> <<>>, res |-> "none"]

\* a request entering its handler: req.session.user, req.params.id, req.body
\* and req.file are fixed from here on
NewReq(op, s, j, pc) ==
  [Idle EXCEPT !.op = op, !.pc = pc, !.user = sessions[s], !.job = j]

\* the status job j has now, "none" when there is no such job
StatusNow(j) == IF j \in 1 .. Len(jobs) THEN jobs[j].status ELSE "none"

\* the response of a request; its handler is over and its inputs are dropped
Respond(q, res) ==
  [Idle EXCEPT !.op = q.op, !.pc = "done", !.user = q.user, !.job = q.job,
               !.seen = q.seen, !.last = q.last, !.res = res]

\* the slot a new request takes: the first free one
Free(r) == reqs[r].op = "idle" /\ \A r2 \in ReqIds : r2 < r => reqs[r2].op # "idle"

\* requests that have not yet run the statement at pc
InFlight(op, pc) == {r \in ReqIds : reqs[r].op = op /\ reqs[r].pc = pc}

\* SELECT * FROM jobs WHERE id = ?
JobExists(j) == j \in 1 .. Len(jobs)

\* the lookup without AND user_id = ?
OwnJobExistsAnyUser(j, u) == JobExists(j)

\* SELECT * FROM jobs WHERE id = ? AND user_id = ?
OwnJobExists(j, u) == JobExists(j) /\ jobs[j].user_id = u

\* SELECT * FROM problem_reports WHERE job_id = ? AND status = 'open'
OpenReports(j) ==
  {i \in 1 .. Len(reports) : reports[i].job_id = j /\ reports[i].status = "open"}

\* the sockets io.to(room) reaches
Members(room) == {s \in SessionIds : room \in rooms[s]}

\* an emit that reaches one socket of the room only
EmitToOneMember(room, event, j, id) ==
  Append(emitted, [room |-> room, event |-> event, job |-> j, id |-> id,
                   to |-> IF Members(room) = {} THEN {}
                          ELSE {CHOOSE s \in Members(room) : TRUE}])

\* io.to(room).emit(event, payload)
Emit(room, event, j, id) ==
  Append(emitted, [room |-> room, event |-> event, job |-> j, id |-> id,
                   to |-> Members(room)])

\* the room `job_${jobId}` of the text jobId
RoomOf(id) == <<"job", id>>

\* the room of job j: `job_${j}` with the decimal text of j
JobRoom(j) == RoomOf(ToString(j))
AdminRoom == <<"admin", 0>>

\* the statements that still may emit, insert a job, a report or a message
Emitters ==
  InFlight("upload", "insert") \cup InFlight("report_problem", "select_job")
  \cup InFlight("report_problem", "select_report") \cup InFlight("report_problem", "insert")
  \cup InFlight("close_problem", "update") \cup InFlight("post_message", "select_job")
  \cup InFlight("post_message", "insert") \cup InFlight("post_message", "reread")

Reporters ==
  InFlight("report_problem", "select_job") \cup InFlight("report_problem", "select_report")
  \cup InFlight("report_problem", "insert")

Posters ==
  InFlight("post_message", "select_job") \cup InFlight("post_message", "insert")

CanEmit == Len(emitted) + Cardinality(Emitters) < MaxEvents
CanInsertJob == Len(jobs) + Cardinality(InFlight("upload", "insert")) < MaxJobs
CanInsertReport == Len(reports) + Cardinality(Reporters) < MaxReports
CanInsertMessage == Len(messages) + Cardinality(Posters) < MaxMessages

(* ------------------------------ sessions ------------------------------ *)

\* requireAuth
requireAuth(user) == user # NoUser

\* requireAdmin without the test of the role
requireAdminAnyRole(user) == user # NoUser

\* requireAdmin looking the role up in the users table
requireAdminFromTable(user) == user # NoUser /\ users[user.id] = "admin"

\* requireAdmin
requireAdmin(user) == user # NoUser /\ user.role = "admin"

\* POST /login with the credentials of user s: the role is read from the
\* users table and stored in the session
Login(s) ==
  /\ s \in UserIds
  /\ sessions[s] = NoUser
  /\ sessions' = [sessions EXCEPT ![s] = [id |-> s, role |-> users[s]]]
  /\ UNCHANGED <<now, users, jobs, reports, messages, rooms, emitted, reqs>>

\* POST /logout: req.session.destroy
Logout(s) ==
  /\ sessions[s] # NoUser
  /\ sessions' = [sessions EXCEPT ![s] = NoUser]
  /\ UNCHANGED <<now, users, jobs, reports, messages, rooms, emitted, reqs>>

(* ----------------------- POST /admin/users/:id/edit ------------------- *)

\* req.body.role of the edit form
FormRoles == {Undef, "client", "admin"}

\* username and email are always filled in; job holds req.params.id and row
\* the role posted
UserEditStart(r, s, u, role) ==
  /\ Free(r)
  /\ LET q == [NewReq("user_edit", s, u, "update") EXCEPT !.row = role]
     IN reqs' = [reqs EXCEPT ![r] =
          IF ~requireAdmin(q.user) THEN Respond(q, "403:Forbidden")
          ELSE IF ~Truthy(role) THEN Respond(q, "400:All fields required")
          ELSE q]
  /\ UNCHANGED <<now, users, sessions, jobs, reports, messages, rooms, emitted>>

\* UPDATE users SET username = ?, email = ?, role = ? WHERE id = ?
UserEditUpdate(r) ==
  /\ reqs[r].op = "user_edit" /\ reqs[r].pc = "update"
  /\ users' = [u \in UserIds |-> IF u = reqs[r].job THEN reqs[r].row ELSE users[u]]
  /\ reqs' = [reqs EXCEPT ![r] = Respond(@, "302:/admin/users")]
  /\ UNCHANGED <<now, sessions, jobs, reports, messages, rooms, emitted>>

(* ------------------------------ POST /upload -------------------------- *)

UploadStart(r, s, file, form) ==
  /\ Free(r)
  /\ CanInsertJob /\ CanEmit
  /\ LET q == [NewReq("upload", s, 0, "insert") EXCEPT !.file = file, !.form = form]
     IN reqs' = [reqs EXCEPT ![r] =
          IF ~requireAuth(q.user) THEN Respond(q, "302:/login")
          ELSE IF file = NoFile THEN Respond(q, "400:File is required")
          ELSE q]
  /\ UNCHANGED <<now, users, sessions, jobs, reports, messages, rooms, emitted>>

\* the row INSERT INTO jobs writes
NewJob(q) ==
  LET f == FormFields(q.form)
  IN [user_id |-> q.user.id, original_filename |-> q.file, options |-> f.options,
      notes |-> f.notes, status |-> "pending", processed_filename |-> Null,
      vehicle_make |-> f.vehicle_make, vehicle_model |-> f.vehicle_model,
      vehicle_year |-> f.vehicle_year, ecu_controller |-> f.ecu_controller,
      client_message |-> Null, created_at |-> now, updated_at |-> now]

UploadInsert(r) ==
  /\ reqs[r].op = "upload" /\ reqs[r].pc = "insert"
  /\ jobs' = Append(jobs, NewJob(reqs[r]))
  /\ emitted' = Emit(AdminRoom, "newJob", Len(jobs) + 1, Len(jobs) + 1)
  /\ reqs' = [reqs EXCEPT ![r] = Respond(@, "302:/jobs/history")]
  /\ UNCHANGED <<now, users, sessions, reports, messages, rooms>>

(* --------------------------- POST /jobs/:id/edit ---------------------- *)

EditStart(r, s, j, form) ==
  /\ Free(r)
  /\ LET q == [NewReq("edit", s, j, "select") EXCEPT !.form = form, !.seen = StatusNow(j)]
     IN reqs' = [reqs EXCEPT ![r] =
          IF ~requireAuth(q.user) THEN Respond(q, "302:/login") ELSE q]
  /\ UNCHANGED <<now, users, sessions, jobs, reports, messages, rooms, emitted>>

\* EditCheck without the test of existingJob.status
EditCheckAnyStatus(q) ==
  IF ~OwnJobExists(q.job, q.user.id) THEN "404:Job not found" ELSE "go on"

\* what the handler answers after SELECT * FROM jobs WHERE id = ? AND user_id = ?
\* ("go on" when it goes on to the UPDATE)
EditCheck(q) ==
  IF ~OwnJobExists(q.job, q.user.id) THEN "404:Job not found"
  ELSE IF jobs[q.job].status # "pending" THEN "403:only pending jobs can be edited"
  ELSE "go on"

EditSelect(r) ==
  /\ reqs[r].op = "edit" /\ reqs[r].pc = "select"
  /\ reqs' = [reqs EXCEPT ![r] =
       IF EditCheck(@) = "go on" THEN [@ EXCEPT !.pc = "update"]
       ELSE Respond(@, EditCheck(@))]
  /\ UNCHANGED <<now, users, sessions, jobs, reports, messages, rooms, emitted>>

\* the rows UPDATE jobs SET options = ?, ... WHERE id = ? AND user_id = ? matches
EditMatches(q, j) == j = q.job /\ jobs[j].user_id = q.user.id

EditUpdate(r) ==
  /\ reqs[r].op = "edit" /\ reqs[r].pc = "update"
  /\ LET q == reqs[r]
         f == FormFields(q.form)
     IN jobs' = [j \in 1 .. Len(jobs) |->
          IF EditMatches(q, j)
          THEN [jobs[j] EXCEPT !.options = f.options, !.notes = f.notes,
                  !.vehicle_make = f.vehicle_make, !.vehicle_model = f.vehicle_model,
                  !.vehicle_year = f.vehicle_year, !.ecu_controller = f.ecu_controller,
                  !.updated_at = now]
          ELSE jobs[j]]
  /\ reqs' = [reqs EXCEPT ![r] = Respond(@, "302:/jobs/history")]
  /\ UNCHANGED <<now, users, sessions, reports, messages, rooms, emitted>>


(* --------------------------- GET /jobs/:id/edit ----------------------- *)

EditFormStart(r, s, j) ==
  /\ Free(r)
  /\ LET q == NewReq("edit_form", s, j, "select")
     IN reqs' = [reqs EXCEPT ![r] =
          IF ~requireAuth(q.user) THEN Respond(q, "302:/login") ELSE q]
  /\ UNCHANGED <<now, users, sessions, jobs, reports, messages, rooms, emitted>>

\* the same lookup and the same two refusals as the POST route, then the form
EditFormSelect(r) ==
  /\ reqs[r].op = "edit_form" /\ reqs[r].pc = "select"
  /\ reqs' = [reqs EXCEPT ![r] =
       IF EditCheck(@) = "go on" THEN Respond(@, "200:jobs_edit")
       ELSE Respond(@, EditCheck(@))]
  /\ UNCHANGED <<now, users, sessions, jobs, reports, messages, rooms, emitted>>

(* ------------------- GET /jobs/:id and /jobs/:id/download ------------- *)

ViewStart(r, s, j) ==
  /\ Free(r)
  /\ LET q == NewReq("view", s, j, "select")
     IN reqs' = [reqs EXCEPT ![r] =
          IF ~requireAuth(q.user) THEN Respond(q, "302:/login") ELSE q]
  /\ UNCHANGED <<now, users, sessions, jobs, reports, messages, rooms, emitted>>

\* an answer that tells a job of another user from no job
ViewCheckLeaky(q) ==
  IF ~JobExists(q.job) THEN "404:Job not found"
  ELSE IF jobs[q.job].user_id # q.user.id THEN "403:Forbidden"
  ELSE "200:jobs_detail"

\* the answer after SELECT jobs.* ... WHERE jobs.id = ? AND jobs.user_id = ?
ViewCheck(q) ==
  IF ~OwnJobExists(q.job, q.user.id) THEN "404:Job not found" ELSE "200:jobs_detail"

ViewSelect(r) ==
  /\ reqs[r].op = "view" /\ reqs[r].pc = "select"
  /\ reqs' = [reqs EXCEPT ![r] = Respond(@, ViewCheck(@))]
  /\ UNCHANGED <<now, users, sessions, jobs, reports, messages, rooms, emitted>>

DownloadStart(r, s, j) ==
  /\ Free(r)
  /\ LET q == NewReq("download", s, j, "select")
     IN reqs' = [reqs EXCEPT ![r] =
          IF ~requireAuth(q.user) THEN Respond(q, "302:/login") ELSE q]
  /\ UNCHANGED <<now, users, sessions, jobs, reports, messages, rooms, emitted>>

\* the answer after SELECT * FROM jobs WHERE id = ? AND user_id = ?
DownloadCheck(q) ==
  IF ~OwnJobExists(q.job, q.user.id) THEN "404:Job not found"
  ELSE IF jobs[q.job].processed_filename = Null THEN "400:File not ready yet"
  ELSE "200:download"

\* the suffix built from JSON.parse(job.options), as the pieces of its text
Suffix(opts) ==
  (IF opts.dpf_off THEN <<"(DPF_OFF)">> ELSE <<>>)
  \o (IF opts.egr_off THEN <<"(EGR_OFF)">> ELSE <<>>)
  \o (IF opts.adblue_off THEN <<"(AdBlue_OFF)">> ELSE <<>>)
  \o (IF opts.dtc_off THEN <<"(DTC_", opts.dtc_codes, "_OFF)">> ELSE <<>>)
  \o (IF opts.immo_off THEN <<"(IMMO_OFF)">> ELSE <<>>)

\* downloadFilename, as the pieces of its text
DownloadFilename(job) ==
  LET parts == Split(job.original_filename)
      ext == IF Len(parts) > 1 THEN parts[Len(parts)] ELSE ""
      rest == IF Len(parts) > 1 THEN SubSeq(parts, 1, Len(parts) - 1) ELSE parts
      base == Join(rest)
      suffix == Suffix(JSONparse(job.options))
  IN IF ext # "" THEN base \o <<"_processed">> \o suffix \o <<".", ext>>
     ELSE base \o <<"_processed">> \o suffix

\* res.download(filePath, downloadFilename): row is the file sent, list the
\* name it is sent under
DownloadSelect(r) ==
  /\ reqs[r].op = "download" /\ reqs[r].pc = "select"
  /\ reqs' = [reqs EXCEPT ![r] =
       [Respond(@, DownloadCheck(@)) EXCEPT
          !.row = IF DownloadCheck(reqs[r]) = "200:download"
                  THEN jobs[reqs[r].job].processed_filename ELSE Null,
          !.list = IF DownloadCheck(reqs[r]) = "200:download"
                   THEN DownloadFilename(jobs[reqs[r].job]) ELSE <<>>]]
  /\ UNCHANGED <<now, users, sessions, jobs, reports, messages, rooms, emitted>>

(* ---------------------- POST /jobs/:id/report_problem ----------------- *)

ReportStart(r, s, j, text) ==
  /\ Free(r)
  /\ CanInsertReport /\ CanEmit
  /\ LET q == [NewReq("report_problem", s, j, "select_job") EXCEPT !.text = text]
     IN reqs' = [reqs EXCEPT ![r] =
          IF ~requireAuth(q.user) THEN Respond(q, "302:/login")
          ELSE IF Trim(text) = <<>> THEN Respond(q, "400:description is required")
          ELSE q]
  /\ UNCHANGED <<now, users, sessions, jobs, reports, messages, rooms, emitted>>

\* SELECT * FROM jobs WHERE id = ? AND user_id = ? AND status = 'completed'
ReportJobFound(q) ==
  OwnJobExists(q.job, q.user.id) /\ jobs[q.job].status = "completed"

ReportSelectJob(r) ==
  /\ reqs[r].op = "report_problem" /\ reqs[r].pc = "select_job"
  /\ reqs' = [reqs EXCEPT ![r] =
       IF ReportJobFound(@)
       THEN [@ EXCEPT !.pc = "select_report", !.row = jobs[reqs[r].job].original_filename]
       ELSE Respond(@, "403:cannot report a problem with this job")]
  /\ UNCHANGED <<now, users, sessions, jobs, reports, messages, rooms, emitted>>

\* the check for a report of the job in any status
ReportSelectReportAnyStatus(r) ==
  /\ reqs[r].op = "report_problem" /\ reqs[r].pc = "select_report"
  /\ reqs' = [reqs EXCEPT ![r] =
       IF \E i \in 1 .. Len(reports) : reports[i].job_id = reqs[r].job
       THEN Respond(@, "302:/jobs/:id existing report")
       ELSE [@ EXCEPT !.pc = "insert"]]
  /\ UNCHANGED <<now, users, sessions, jobs, reports, messages, rooms, emitted>>

ReportSelectReport(r) ==
  /\ reqs[r].op = "report_problem" /\ reqs[r].pc = "select_report"
  /\ reqs' = [reqs EXCEPT ![r] =
       IF OpenReports(@.job) # {} THEN Respond(@, "302:/jobs/:id existing report")
       ELSE [@ EXCEPT !.pc = "insert"]]
  /\ UNCHANGED <<now, users, sessions, jobs, reports, messages, rooms, emitted>>

ReportInsert(r) ==
  /\ reqs[r].op = "report_problem" /\ reqs[r].pc = "insert"
  /\ reports' = Append(reports,
       [job_id |-> reqs[r].job, reported_by |-> reqs[r].user.id,
        description |-> Trim(reqs[r].text), status |-> "open",
        created_at |-> now, resolved_at |-> NullInt])
  /\ emitted' = Emit(AdminRoom, "problemReport", reqs[r].job, Len(reports) + 1)
  /\ reqs' = [reqs EXCEPT ![r] = [Respond(@, "302:/jobs/:id") EXCEPT !.last = Len(reports) + 1]]
  /\ UNCHANGED <<now, users, sessions, jobs, messages, rooms>>

(* ------------------------------ admin routes -------------------------- *)

\* CompleteStart without the check of req.file
CompleteStartAnyFile(r, s, j, file) ==
  /\ Free(r)
  /\ LET q == [NewReq("complete", s, j, "update") EXCEPT !.file = file, !.seen = StatusNow(j)]
     IN reqs' = [reqs EXCEPT ![r] =
          IF ~requireAdmin(q.user) THEN Respond(q, "403:Forbidden") ELSE q]
  /\ UNCHANGED <<now, users, sessions, jobs, reports, messages, rooms, emitted>>

\* POST /admin/jobs/:id/complete: requireAdmin, then multer parses the body
\* and the handler checks req.file before it issues the UPDATE
CompleteStart(r, s, j, file) ==
  /\ Free(r)
  /\ LET q == [NewReq("complete", s, j, "update") EXCEPT !.file = file, !.seen = StatusNow(j)]
     IN reqs' = [reqs EXCEPT ![r] =
          IF ~requireAdmin(q.user) THEN Respond(q, "403:Forbidden")
          ELSE IF file = NoFile THEN Respond(q, "400:Processed file is required")
          ELSE q]
  /\ UNCHANGED <<now, users, sessions, jobs, reports, messages, rooms, emitted>>

\* the rows UPDATE jobs SET status = 'completed', processed_filename = ? WHERE id = ?
\* matches
CompleteMatches(q, j) == j = q.job

CompleteUpdate(r) ==
  /\ reqs[r].op = "complete" /\ reqs[r].pc = "update"
  /\ jobs' = [j \in 1 .. Len(jobs) |->
       IF CompleteMatches(reqs[r], j)
       THEN [jobs[j] EXCEPT !.status = "completed", !.processed_filename = reqs[r].file,
                            !.updated_at = now]
       ELSE jobs[j]]
  /\ reqs' = [reqs EXCEPT ![r] = Respond(@, "302:/admin/jobs")]
  /\ UNCHANGED <<now, users, sessions, reports, messages, rooms, emitted>>

\* POST /admin/jobs/:id/cancel
CancelStart(r, s, j) ==
  /\ Free(r)
  /\ LET q == [NewReq("cancel", s, j, "update") EXCEPT !.seen = StatusNow(j)]
     IN reqs' = [reqs EXCEPT ![r] =
          IF ~requireAdmin(q.user) THEN Respond(q, "403:Forbidden") ELSE q]
  /\ UNCHANGED <<now, users, sessions, jobs, reports, messages, rooms, emitted>>

\* the rows UPDATE jobs SET status = 'cancelled' WHERE id = ? matches
CancelMatches(q, j) == j = q.job

CancelUpdate(r) ==
  /\ reqs[r].op = "cancel" /\ reqs[r].pc = "update"
  /\ jobs' = [j \in 1 .. Len(jobs) |->
       IF CancelMatches(reqs[r], j)
       THEN [jobs[j] EXCEPT !.status = "cancelled", !.updated_at = now]
       ELSE jobs[j]]
  /\ reqs' = [reqs EXCEPT ![r] = Respond(@, "302:/admin/jobs")]
  /\ UNCHANGED <<now, users, sessions, reports, messages, rooms, emitted>>

\* POST /admin/jobs/:id/update_message
MessageStart(r, s, j, msg) ==
  /\ Free(r)
  /\ LET q == [NewReq("update_message", s, j, "update") EXCEPT !.row = OrEmpty(msg)]
     IN reqs' = [reqs EXCEPT ![r] =
          IF ~requireAdmin(q.user) THEN Respond(q, "403:Forbidden") ELSE q]
  /\ UNCHANGED <<now, users, sessions, jobs, reports, messages, rooms, emitted>>

\* the UPDATE with AND status = 'pending'
MessageUpdatePendingOnly(r) ==
  /\ reqs[r].op = "update_message" /\ reqs[r].pc = "update"
  /\ jobs' = [j \in 1 .. Len(jobs) |->
       IF j = reqs[r].job /\ jobs[j].status = "pending"
       THEN [jobs[j] EXCEPT !.client_message = reqs[r].row, !.updated_at = now]
       ELSE jobs[j]]
  /\ reqs' = [reqs EXCEPT ![r] = Respond(@, "302:/admin/jobs/:id")]
  /\ UNCHANGED <<now, users, sessions, reports, messages, rooms, emitted>>

MessageUpdate(r) ==
  /\ reqs[r].op = "update_message" /\ reqs[r].pc = "update"
  /\ jobs' = [j \in 1 .. Len(jobs) |->
       IF j = reqs[r].job
       THEN [jobs[j] EXCEPT !.client_message = reqs[r].row, !.updated_at = now]
       ELSE jobs[j]]
  /\ reqs' = [reqs EXCEPT ![r] = Respond(@, "302:/admin/jobs/:id")]
  /\ UNCHANGED <<now, users, sessions, reports, messages, rooms, emitted>>

\* POST /admin/jobs/:id/close_problem
CloseStart(r, s, j) ==
  /\ Free(r)
  /\ CanEmit
  /\ LET q == NewReq("close_problem", s, j, "update")
     IN reqs' = [reqs EXCEPT ![r] =
          IF ~requireAdmin(q.user) THEN Respond(q, "403:Forbidden") ELSE q]
  /\ UNCHANGED <<now, users, sessions, jobs, reports, messages, rooms, emitted>>

\* UPDATE problem_reports SET status = 'resolved' WHERE job_id = ? AND status = 'open',
\* and the callback's emit
CloseUpdate(r) ==
  /\ reqs[r].op = "close_problem" /\ reqs[r].pc = "update"
  /\ reports' = [i \in 1 .. Len(reports) |->
       IF i \in OpenReports(reqs[r].job)
       THEN [reports[i] EXCEPT !.status = "resolved", !.resolved_at = now]
       ELSE reports[i]]
  /\ emitted' = Emit(AdminRoom, "problemResolved", reqs[r].job, 0)
  /\ reqs' = [reqs EXCEPT ![r] = Respond(@, "302:/admin/jobs/:id")]
  /\ UNCHANGED <<now, users, sessions, jobs, messages, rooms>>


(* --------------------------- /api/jobs/:id/messages ------------------- *)

\* the job lookup without AND user_id = ? for every role
ThreadJobFoundAnyUser(q) == JobExists(q.job)

\* the job lookup both message routes make: any job for the admin role,
\* the user's own jobs otherwise
ThreadJobFound(q) ==
  IF q.user.role = "admin" THEN JobExists(q.job) ELSE OwnJobExists(q.job, q.user.id)

\* GET /api/jobs/:id/messages
ListStart(r, s, j) ==
  /\ Free(r)
  /\ LET q == NewReq("list_messages", s, j, "select_job")
     IN reqs' = [reqs EXCEPT ![r] =
          IF ~requireAuth(q.user) THEN Respond(q, "302:/login") ELSE q]
  /\ UNCHANGED <<now, users, sessions, jobs, reports, messages, rooms, emitted>>

ListSelectJob(r) ==
  /\ reqs[r].op = "list_messages" /\ reqs[r].pc = "select_job"
  /\ reqs' = [reqs EXCEPT ![r] =
       IF ThreadJobFound(@) THEN [@ EXCEPT !.pc = "select_messages"]
       ELSE Respond(@, "403:Forbidden")]
  /\ UNCHANGED <<now, users, sessions, jobs, reports, messages, rooms, emitted>>

\* the ids of the rows WHERE messages.job_id = ?
ThreadOf(j) == {i \in 1 .. Len(messages) : messages[i].job_id = j}

\* the results ORDER BY messages.created_at ASC can give: every order of the
\* rows of the job in which created_at does not decrease (SQL leaves the order
\* of rows with equal keys open)
Listings(j) ==
  {o \in [1 .. Cardinality(ThreadOf(j)) -> ThreadOf(j)] :
     /\ \A a, b \in DOMAIN o : a # b => o[a] # o[b]
     /\ \A a, b \in DOMAIN o :
          a < b => messages[o[a]].created_at <= messages[o[b]].created_at}

\* res.json(messages): list is the ids of the rows in the order returned
ListSelectMessages(r) ==
  /\ reqs[r].op = "list_messages" /\ reqs[r].pc = "select_messages"
  /\ \E o \in Listings(reqs[r].job) :
       reqs' = [reqs EXCEPT ![r] = [Respond(@, "200:messages") EXCEPT !.list = o]]
  /\ UNCHANGED <<now, users, sessions, jobs, reports, messages, rooms, emitted>>

\* the texts req.params.id takes: the decimal texts of the job ids, a text
\* with a leading zero and a text that is no number
JobParams == {ToString(j) : j \in JobIds} \cup {"01", "1abc"}

\* the integer SQLite compares with jobs.id and stores in messages.job_id
\* when the text id is bound to the statement: the column's affinity turns a
\* text that reads as a number into that number, and any other text equals no id
SqlInteger(id) ==
  IF \E n \in 0 .. 9 : id \in {ToString(n), "0" \o ToString(n)}
  THEN CHOOSE n \in 0 .. 9 : id \in {ToString(n), "0" \o ToString(n)}
  ELSE NullInt

\* POST /api/jobs/:id/messages; row holds req.params.id as it was sent and
\* job the id the statements see
PostStart(r, s, id, text) ==
  /\ Free(r)
  /\ CanInsertMessage /\ CanEmit
  /\ LET q == [NewReq("post_message", s, SqlInteger(id), "select_job")
                 EXCEPT !.text = text, !.row = id]
     IN reqs' = [reqs EXCEPT ![r] =
          IF ~requireAuth(q.user) THEN Respond(q, "302:/login")
          ELSE IF Trim(text) = <<>> THEN Respond(q, "400:Message is required")
          ELSE q]
  /\ UNCHANGED <<now, users, sessions, jobs, reports, messages, rooms, emitted>>

\* the job check announcing the message it is about to store
PostSelectJobAnnounces(r) ==
  /\ reqs[r].op = "post_message" /\ reqs[r].pc = "select_job"
  /\ reqs' = [reqs EXCEPT ![r] =
       IF ThreadJobFound(@) THEN [@ EXCEPT !.pc = "insert"]
       ELSE Respond(@, "403:Forbidden")]
  /\ emitted' = IF ThreadJobFound(reqs[r])
                THEN Emit(RoomOf(reqs[r].row), "newMessage", reqs[r].job, Len(messages) + 1)
                ELSE emitted
  /\ UNCHANGED <<now, users, sessions, jobs, reports, messages, rooms>>

PostSelectJob(r) ==
  /\ reqs[r].op = "post_message" /\ reqs[r].pc = "select_job"
  /\ reqs' = [reqs EXCEPT ![r] =
       IF ThreadJobFound(@) THEN [@ EXCEPT !.pc = "insert"]
       ELSE Respond(@, "403:Forbidden")]
  /\ UNCHANGED <<now, users, sessions, jobs, reports, messages, rooms, emitted>>

\* the INSERT writing over the newest message of the job, if there is one
PostInsertLastWins(r) ==
  /\ reqs[r].op = "post_message" /\ reqs[r].pc = "insert"
  /\ LET row == [job_id |-> reqs[r].job, user_id |-> reqs[r].user.id,
                 message |-> Trim(reqs[r].text), created_at |-> now]
         old == {i \in 1 .. Len(messages) : messages[i].job_id = reqs[r].job}
         at == IF old = {} THEN Len(messages) + 1
               ELSE CHOOSE i \in old : \A k \in old : k <= i
     IN /\ messages' = IF old = {} THEN Append(messages, row)
                       ELSE [messages EXCEPT ![at] = row]
        /\ reqs' = [reqs EXCEPT ![r] = [@ EXCEPT !.pc = "reread", !.last = at]]
  /\ UNCHANGED <<now, users, sessions, jobs, reports, rooms, emitted>>

PostInsert(r) ==
  /\ reqs[r].op = "post_message" /\ reqs[r].pc = "insert"
  /\ messages' = Append(messages,
       [job_id |-> reqs[r].job, user_id |-> reqs[r].user.id, message |-> Trim(reqs[r].text),
        created_at |-> now])
  /\ reqs' = [reqs EXCEPT ![r] = [@ EXCEPT !.pc = "reread", !.last = Len(messages) + 1]]
  /\ UNCHANGED <<now, users, sessions, jobs, reports, rooms, emitted>>

\* SELECT messages.* ... WHERE messages.id = ?, then io.to(`job_${jobId}`).emit
PostReread(r) ==
  /\ reqs[r].op = "post_message" /\ reqs[r].pc = "reread"
  /\ emitted' = Emit(RoomOf(reqs[r].row), "newMessage", reqs[r].job, reqs[r].last)
  /\ reqs' = [reqs EXCEPT ![r] = Respond(@, "200:message")]
  /\ UNCHANGED <<now, users, sessions, jobs, reports, messages, rooms>>

(* ------------------------------ admin reads --------------------------- *)

\* GET /admin/jobs/:id
AdminViewStart(r, s, j) ==
  /\ Free(r)
  /\ LET q == NewReq("admin_view", s, j, "select")
     IN reqs' = [reqs EXCEPT ![r] =
          IF ~requireAdmin(q.user) THEN Respond(q, "403:Forbidden") ELSE q]
  /\ UNCHANGED <<now, users, sessions, jobs, reports, messages, rooms, emitted>>

\* SELECT jobs.* ... WHERE jobs.id = ?
AdminViewSelect(r) ==
  /\ reqs[r].op = "admin_view" /\ reqs[r].pc = "select"
  /\ reqs' = [reqs EXCEPT ![r] =
       IF JobExists(@.job) THEN Respond(@, "200:admin_job_detail")
       ELSE Respond(@, "404:Job not found")]
  /\ UNCHANGED <<now, users, sessions, jobs, reports, messages, rooms, emitted>>

\* the rows WHERE problem_reports.status = 'open'
AllOpenReports == {i \in 1 .. Len(reports) : reports[i].status = "open"}

\* the results ORDER BY problem_reports.created_at DESC can give
OpenListings ==
  {o \in [1 .. Cardinality(AllOpenReports) -> AllOpenReports] :
     /\ \A a, b \in DOMAIN o : a # b => o[a] # o[b]
     /\ \A a, b \in DOMAIN o :
          a < b => reports[o[a]].created_at >= reports[o[b]].created_at}

\* GET /api/admin/open-problems
OpenProblemsStart(r, s) ==
  /\ Free(r)
  /\ LET q == NewReq("open_problems", s, 0, "select")
     IN reqs' = [reqs EXCEPT ![r] =
          IF ~requireAdmin(q.user) THEN Respond(q, "403:Forbidden") ELSE q]
  /\ UNCHANGED <<now, users, sessions, jobs, reports, messages, rooms, emitted>>

\* res.json(problems): list is the ids of the rows in the order returned
OpenProblemsSelect(r) ==
  /\ reqs[r].op = "open_problems" /\ reqs[r].pc = "select"
  /\ \E o \in OpenListings :
       reqs' = [reqs EXCEPT ![r] = [Respond(@, "200:problems") EXCEPT !.list = o]]
  /\ UNCHANGED <<now, users, sessions, jobs, reports, messages, rooms, emitted>>

(* ------------------------------ socket.io ----------------------------- *)

\* the rooms socket s is in after socket.on('joinJob', jobId)
joinJob(s, j) == rooms[s] \cup {JobRoom(j)}

\* the rooms socket s is in after socket.on('joinAdmin')
joinAdmin(s) == rooms[s] \cup {AdminRoom}

JoinJob(s, j) ==
  /\ rooms' = [rooms EXCEPT ![s] = joinJob(s, j)]
  /\ UNCHANGED <<now, users, sessions, jobs, reports, messages, emitted, reqs>>

JoinAdmin(s) ==
  /\ rooms' = [rooms EXCEPT ![s] = joinAdmin(s)]
  /\ UNCHANGED <<now, users, sessions, jobs, reports, messages, emitted, reqs>>

\* socket 'disconnect': socket.io takes the socket out of every room
Disconnect(s) ==
  /\ rooms[s] # {}
  /\ rooms' = [rooms EXCEPT ![s] = {}]
  /\ UNCHANGED <<now, users, sessions, jobs, reports, messages, emitted, reqs>>

(* ------------------------------ the system ---------------------------- *)

\* a second passes on the clock CURRENT_TIMESTAMP reads
Tick ==
  /\ now < MaxClock
  /\ now' = now + 1
  /\ UNCHANGED <<users, sessions, jobs, reports, messages, rooms, emitted, reqs>>

\* the response was read; the slot is free again
Retire(r) ==
  /\ reqs[r].pc = "done"
  /\ reqs' = [reqs EXCEPT ![r] = Idle]
  /\ UNCHANGED <<now, users, sessions, jobs, reports, messages, rooms, emitted>>

\* the database after bootstrap and registration of the client accounts,
\* nobody logged in, no socket in a room
Init ==
  /\ users = [u \in UserIds |-> IF u = AdminId THEN "admin" ELSE "client"]
  /\ sessions = [s \in SessionIds |-> NoUser]
  /\ jobs = <<>>
  /\ reports = <<>>
  /\ messages = <<>>
  /\ rooms = [s \in SessionIds |-> {}]
  /\ emitted = <<>>
  /\ reqs = [r \in ReqIds |-> Idle]
  /\ now = 0

Next ==
  \/ \E s \in SessionIds : Login(s)
  \/ \E s \in SessionIds : Logout(s)
  \/ \E r \in ReqIds, s \in SessionIds, u \in UserIds, role \in FormRoles :
       UserEditStart(r, s, u, role)
  \/ \E r \in ReqIds : UserEditUpdate(r)
  \/ \E r \in ReqIds, s \in SessionIds, j \in JobIds : AdminViewStart(r, s, j)
  \/ \E r \in ReqIds : AdminViewSelect(r)
  \/ \E r \in ReqIds, s \in SessionIds : OpenProblemsStart(r, s)
  \/ \E r \in ReqIds : OpenProblemsSelect(r)
  \/ \E r \in ReqIds, s \in SessionIds, file \in UploadFiles, form \in Forms :
       UploadStart(r, s, file, form)
  \/ \E r \in ReqIds : UploadInsert(r)
  \/ \E r \in ReqIds, s \in SessionIds, j \in JobIds, form \in Forms : EditStart(r, s, j, form)
  \/ \E r \in ReqIds : EditSelect(r)
  \/ \E r \in ReqIds : EditUpdate(r)
  \/ \E r \in ReqIds, s \in SessionIds, j \in JobIds : EditFormStart(r, s, j)
  \/ \E r \in ReqIds : EditFormSelect(r)
  \/ \E r \in ReqIds, s \in SessionIds, j \in JobIds : ViewStart(r, s, j)
  \/ \E r \in ReqIds : ViewSelect(r)
  \/ \E r \in ReqIds, s \in SessionIds, j \in JobIds : DownloadStart(r, s, j)
  \/ \E r \in ReqIds : DownloadSelect(r)
  \/ \E r \in ReqIds, s \in SessionIds, j \in JobIds, text \in Texts : ReportStart(r, s, j, text)
  \/ \E r \in ReqIds : ReportSelectJob(r)
  \/ \E r \in ReqIds : ReportSelectReport(r)
  \/ \E r \in ReqIds : ReportInsert(r)
  \/ \E r \in ReqIds, s \in SessionIds, j \in JobIds, file \in ProcessedFiles :
       CompleteStart(r, s, j, file)
  \/ \E r \in ReqIds : CompleteUpdate(r)
  \/ \E r \in ReqIds, s \in SessionIds, j \in JobIds : CancelStart(r, s, j)
  \/ \E r \in ReqIds : CancelUpdate(r)
  \/ \E r \in ReqIds, s \in SessionIds, j \in JobIds, msg \in ClientMessages :
       MessageStart(r, s, j, msg)
  \/ \E r \in ReqIds : MessageUpdate(r)
  \/ \E r \in ReqIds, s \in SessionIds, j \in JobIds : CloseStart(r, s, j)
  \/ \E r \in ReqIds : CloseUpdate(r)
  \/ \E r \in ReqIds, s \in SessionIds, j \in JobIds : ListStart(r, s, j)
  \/ \E r \in ReqIds : ListSelectJob(r)
  \/ \E r \in ReqIds : ListSelectMessages(r)
  \/ \E r \in ReqIds, s \in SessionIds, id \in JobParams, text \in Texts :
       PostStart(r, s, id, text)
  \/ \E r \in ReqIds : PostSelectJob(r)
  \/ \E r \in ReqIds : PostInsert(r)
  \/ \E r \in ReqIds : PostReread(r)
  \/ \E s \in SessionIds, j \in JobIds : JoinJob(s, j)
  \/ \E s \in SessionIds : JoinAdmin(s)
  \/ \E s \in SessionIds : Disconnect(s)
  \/ \E r \in ReqIds : Retire(r)
  \/ Tick

Spec == Init /\ [][Next]_vars


\* every account logged in from its own browser
InitLoggedIn ==
  /\ users = [u \in UserIds |-> IF u = AdminId THEN "admin" ELSE "client"]
  /\ sessions = [s \in SessionIds |->
       IF s = Anonymous THEN NoUser ELSE [id |-> s, role |-> users[s]]]
  /\ jobs = <<>>
  /\ reports = <<>>
  /\ messages = <<>>
  /\ rooms = [s \in SessionIds |-> {}]
  /\ emitted = <<>>
  /\ reqs = [r \in ReqIds |-> Idle]
  /\ now = 0

\* the job lifecycle of one client's jobs: the client uploads and edits, the
\* admin completes and cancels
NextLifecycle ==
  \/ \E r \in ReqIds, file \in UploadFiles, form \in Forms :
       UploadStart(r, FirstClient, file, form)
  \/ \E r \in ReqIds : UploadInsert(r)
  \/ \E r \in ReqIds, j \in JobIds, form \in Forms : EditStart(r, FirstClient, j, form)
  \/ \E r \in ReqIds : EditSelect(r)
  \/ \E r \in ReqIds : EditUpdate(r)
  \/ \E r \in ReqIds, j \in JobIds, file \in ProcessedFiles :
       CompleteStart(r, AdminId, j, file)
  \/ \E r \in ReqIds : CompleteUpdate(r)
  \/ \E r \in ReqIds, j \in JobIds : CancelStart(r, AdminId, j)
  \/ \E r \in ReqIds : CancelUpdate(r)
  \/ \E r \in ReqIds : Retire(r)

SpecLifecycle == InitLoggedIn /\ [][NextLifecycle]_vars


(* ------------------------- job lifecycle properties ------------------- *)

\* the responses of a handler that ran to its end without refusing
Success == {"302:/jobs/history", "302:/admin/jobs", "302:/admin/jobs/:id", "302:/jobs/:id",
            "200:jobs_detail", "200:download", "200:messages", "200:message"}

\* request r has just run its final statement
Finishes(r) == reqs[r].pc \notin {"idle", "done"} /\ reqs'[r].pc = "done"

\* the columns POST /jobs/:id/edit writes
Editable(job) ==
  <<job.options, job.notes, job.vehicle_make, job.vehicle_model, job.vehicle_year,
    job.ecu_controller>>

\* C1: the status of a job changes only from pending (to completed or to
\* cancelled), and a complete or cancel request whose UPDATE runs on a job
\* that is already completed or cancelled is refused and changes no job.
C1_StatusLeavesOnlyPending ==
  [][/\ \A j \in 1 .. Len(jobs) :
          jobs'[j].status # jobs[j].status =>
            jobs[j].status = "pending" /\ jobs'[j].status \in {"completed", "cancelled"}
     /\ \A r \in ReqIds :
          (/\ reqs[r].op \in {"complete", "cancel"}
           /\ Finishes(r)
           /\ JobExists(reqs[r].job)
           /\ jobs[reqs[r].job].status # "pending")
          => reqs'[r].res \notin Success /\ jobs' = jobs]_vars

\* C2: of a complete and a cancel request that both came in while the same
\* job was pending, at most one succeeds.
C2_OneOfCompleteAndCancelSucceeds ==
  \A r1, r2 \in ReqIds :
    (/\ reqs[r1].op = "complete" /\ reqs[r2].op = "cancel"
     /\ reqs[r1].job = reqs[r2].job
     /\ reqs[r1].seen = "pending" /\ reqs[r2].seen = "pending"
     /\ reqs[r1].pc = "done" /\ reqs[r2].pc = "done")
    => ~(reqs[r1].res \in Success /\ reqs[r2].res \in Success)

\* C4: no step changes the options, notes or vehicle columns of a job whose
\* status is no longer pending.
C4_EditableOnlyWhilePending ==
  [][\A j \in 1 .. Len(jobs) :
       jobs[j].status # "pending" => Editable(jobs'[j]) = Editable(jobs[j])]_vars

\* editing, one request at a time: the clients upload and edit, the admin
\* completes and cancels
NextEditing ==
  \/ \E s \in {FirstClient, LastClient} : UploadStart(1, s, "map.bin", EmptyForm)
  \/ \E r \in ReqIds : UploadInsert(r)
  \/ \E s \in {FirstClient, LastClient}, j \in JobIds, form \in Forms :
       EditStart(1, s, j, form)
  \/ \E r \in ReqIds : EditSelect(r)
  \/ \E r \in ReqIds : EditUpdate(r)
  \/ \E j \in JobIds, file \in ProcessedFiles : CompleteStart(1, AdminId, j, file)
  \/ \E r \in ReqIds : CompleteUpdate(r)
  \/ \E j \in JobIds : CancelStart(1, AdminId, j)
  \/ \E r \in ReqIds : CancelUpdate(r)
  \/ \E r \in ReqIds : Retire(r)

SpecEditing == InitLoggedIn /\ [][NextEditing]_vars

\* C5: an edit request of the owner that comes in when the job is completed or
\* cancelled never reaches its UPDATE, and its response is the 403 refusal.
C5_EditOfFinishedJobRefused ==
  \A r \in ReqIds :
    (/\ reqs[r].op = "edit"
     /\ reqs[r].seen \in {"completed", "cancelled"}
     /\ OwnJobExists(reqs[r].job, reqs[r].user.id))
    => /\ reqs[r].pc \in {"select", "done"}
       /\ reqs[r].pc = "done" => reqs[r].res = "403:only pending jobs can be edited"

\* the owner's edit of a completed job was refused; the job carries the notes
\* of an earlier edit that succeeded (uploads leave the notes empty)
C5_Witness ==
  \E r \in ReqIds :
    /\ reqs[r].op = "edit" /\ reqs[r].seen = "completed"
    /\ reqs[r].res = "403:only pending jobs can be edited"
    /\ OwnJobExists(reqs[r].job, reqs[r].user.id)
    /\ jobs[reqs[r].job].status = "completed"
    /\ jobs[reqs[r].job].notes = "stage 1"

\* C7: the processed_filename of a job changes only in a step that moves the
\* job from pending to completed.
C7_ProcessedFileSetOnlyOnCompletion ==
  [][\A j \in 1 .. Len(jobs) :
       jobs'[j].processed_filename # jobs[j].processed_filename =>
         jobs[j].status = "pending" /\ jobs'[j].status = "completed"]_vars


(* ------------------------- problem report properties ------------------ *)

\* problem reports on one client's jobs: the client uploads and files
\* reports, the admin completes, cancels and closes
NextReports ==
  \/ \E r \in ReqIds : UploadStart(r, FirstClient, "map.bin", EmptyForm)
  \/ \E r \in ReqIds : UploadInsert(r)
  \/ \E r \in ReqIds, j \in JobIds : CompleteStart(r, AdminId, j, "p1.bin")
  \/ \E r \in ReqIds : CompleteUpdate(r)
  \/ \E r \in ReqIds, j \in JobIds : CancelStart(r, AdminId, j)
  \/ \E r \in ReqIds : CancelUpdate(r)
  \/ \E r \in ReqIds, j \in JobIds, text \in Texts : ReportStart(r, FirstClient, j, text)
  \/ \E r \in ReqIds : ReportSelectJob(r)
  \/ \E r \in ReqIds : ReportSelectReport(r)
  \/ \E r \in ReqIds : ReportInsert(r)
  \/ \E r \in ReqIds, j \in JobIds : CloseStart(r, AdminId, j)
  \/ \E r \in ReqIds : CloseUpdate(r)
  \/ \E r \in ReqIds : Retire(r)

SpecReports == InitLoggedIn /\ [][NextReports]_vars

\* C3: no job has more than one open problem report.
C3_OneOpenReportPerJob ==
  \A j \in JobIds : Cardinality(OpenReports(j)) <= 1

\* C6: a step that persists a problem report persists it for a job that is
\* completed at that moment and is owned by the reporter, and a filing request
\* whose job lookup runs on a pending job is refused, adds no report and emits
\* no event.
C6_ReportOnlyOnCompletedOwnJob ==
  [][/\ Len(reports') > Len(reports) =>
          LET rep == reports'[Len(reports')]
          IN /\ OwnJobExists(rep.job_id, rep.reported_by)
             /\ jobs[rep.job_id].status = "completed"
     /\ \A r \in ReqIds :
          (/\ reqs[r].op = "report_problem" /\ reqs[r].pc = "select_job"
           /\ reqs'[r] # reqs[r]
           /\ JobExists(reqs[r].job) /\ jobs[reqs[r].job].status = "pending")
          => /\ reqs'[r].pc = "done"
             /\ reqs'[r].res = "403:cannot report a problem with this job"
             /\ reports' = reports /\ emitted' = emitted]_vars


(* ------------------------------ room properties ----------------------- *)

\* the rooms: a client uploads and posts to the thread, the client's socket and
\* the socket of a browser that never logged in join and leave
NextHub ==
  \/ \E r \in ReqIds : UploadStart(r, FirstClient, "map.bin", EmptyForm)
  \/ \E r \in ReqIds : UploadInsert(r)
  \/ \E r \in ReqIds, j \in JobIds : PostStart(r, FirstClient, ToString(j), <<" ", "h", "i">>)
  \/ \E r \in ReqIds : PostSelectJob(r)
  \/ \E r \in ReqIds : PostInsert(r)
  \/ \E r \in ReqIds : PostReread(r)
  \/ \E s \in {Anonymous, FirstClient}, j \in JobIds : JoinJob(s, j)
  \/ \E s \in {Anonymous, FirstClient} : JoinAdmin(s)
  \/ \E s \in {Anonymous, FirstClient} : Disconnect(s)
  \/ \E r \in ReqIds : Retire(r)

SpecHub == InitLoggedIn /\ [][NextHub]_vars

\* socket s may be in room: it is logged in, and for the room of a job it is
\* the job's owner or has the admin role
Eligible(s, room) ==
  /\ sessions[s] # NoUser
  /\ room[1] = "job" => \/ sessions[s].role = "admin"
                        \/ OwnJobExists(room[2], sessions[s].id)

\* C8: every socket in a room is eligible for the room, and every event went
\* only to sockets eligible for the room it was emitted to.
C8_OnlyEligibleSocketsInRooms ==
  /\ \A s \in SessionIds : \A room \in rooms[s] : Eligible(s, room)
  /\ \A i \in 1 .. Len(emitted) : \A s \in emitted[i].to : Eligible(s, emitted[i].room)


(* --------------------------- access properties ------------------------ *)

\* the routes of a client, one request at a time: both clients upload, and
\* edit, view, download, report, list and post on any job id; the admin completes
NextRequester ==
  \/ \E s \in {FirstClient, LastClient} : UploadStart(1, s, "map.bin", EmptyForm)
  \/ \E r \in ReqIds : UploadInsert(r)
  \/ \E j \in JobIds : CompleteStart(1, AdminId, j, "p1.bin")
  \/ \E r \in ReqIds : CompleteUpdate(r)
  \/ \E s \in {FirstClient, LastClient}, j \in JobIds : EditStart(1, s, j, FullForm)
  \/ \E r \in ReqIds : EditSelect(r)
  \/ \E r \in ReqIds : EditUpdate(r)
  \/ \E s \in {FirstClient, LastClient}, j \in JobIds : ViewStart(1, s, j)
  \/ \E r \in ReqIds : ViewSelect(r)
  \/ \E s \in {FirstClient, LastClient}, j \in JobIds : DownloadStart(1, s, j)
  \/ \E r \in ReqIds : DownloadSelect(r)
  \/ \E s \in {FirstClient, LastClient}, j \in JobIds :
       ReportStart(1, s, j, <<" ", "h", "i">>)
  \/ \E r \in ReqIds : ReportSelectJob(r)
  \/ \E r \in ReqIds : ReportSelectReport(r)
  \/ \E r \in ReqIds : ReportInsert(r)
  \/ \E s \in {FirstClient, LastClient}, j \in JobIds : ListStart(1, s, j)
  \/ \E r \in ReqIds : ListSelectJob(r)
  \/ \E r \in ReqIds : ListSelectMessages(r)
  \/ \E s \in {FirstClient, LastClient}, j \in JobIds :
       PostStart(1, s, ToString(j), <<" ", "h", "i">>)
  \/ \E r \in ReqIds : PostSelectJob(r)
  \/ \E r \in ReqIds : PostInsert(r)
  \/ \E r \in ReqIds : PostReread(r)
  \/ \E r \in ReqIds : Retire(r)

SpecRequester == InitLoggedIn /\ [][NextRequester]_vars

\* user u owns job j
Owns(u, j) == j \in 1 .. Len(jobs) /\ jobs[j].user_id = u

RequesterOps ==
  {"edit", "view", "download", "report_problem", "post_message", "list_messages"}

\* C9: a step of a client's edit, view, download, report, post or list request
\* on a job the client does not own ends the request with a refusal and
\* changes no job, no problem report and no message; and such a request that
\* succeeded was made on a job its client owns.
C9_ClientRoutesOnlyOnOwnJobs ==
  [][\A r \in ReqIds :
       (/\ reqs[r].op \in RequesterOps
        /\ reqs[r].user.role = "client"
        /\ reqs[r].pc \notin {"idle", "done"}
        /\ reqs'[r] # reqs[r])
       => /\ ~Owns(reqs[r].user.id, reqs[r].job) =>
               /\ reqs'[r].pc = "done" /\ reqs'[r].res \notin Success
               /\ jobs' = jobs /\ reports' = reports /\ messages' = messages
          /\ (reqs'[r].pc = "done" /\ reqs'[r].res \in Success) =>
               Owns(reqs[r].user.id, reqs[r].job)]_vars

\* the other client's post on a completed job of the first client was refused,
\* and no message was stored for that job
C9_Witness ==
  \E r \in ReqIds :
    /\ reqs[r].op = "post_message" /\ reqs[r].user.id = LastClient
    /\ Owns(FirstClient, reqs[r].job) /\ jobs[reqs[r].job].status = "completed"
    /\ reqs[r].res = "403:Forbidden"
    /\ \A i \in 1 .. Len(messages) : messages[i].job_id # reqs[r].job

\* the admin routes called from every session, one request at a time; the
\* first client uploads and files problem reports
NextAdmin ==
  \/ UploadStart(1, FirstClient, "map.bin", EmptyForm)
  \/ \E r \in ReqIds : UploadInsert(r)
  \/ \E j \in JobIds : ReportStart(1, FirstClient, j, <<" ", "h", "i">>)
  \/ \E r \in ReqIds : ReportSelectJob(r)
  \/ \E r \in ReqIds : ReportSelectReport(r)
  \/ \E r \in ReqIds : ReportInsert(r)
  \/ \E s \in SessionIds, j \in JobIds : CompleteStart(1, s, j, "p1.bin")
  \/ \E r \in ReqIds : CompleteUpdate(r)
  \/ \E s \in SessionIds, j \in JobIds : CancelStart(1, s, j)
  \/ \E r \in ReqIds : CancelUpdate(r)
  \/ \E s \in SessionIds, j \in JobIds : MessageStart(1, s, j, "ready")
  \/ \E r \in ReqIds : MessageUpdate(r)
  \/ \E s \in SessionIds, j \in JobIds : CloseStart(1, s, j)
  \/ \E r \in ReqIds : CloseUpdate(r)
  \/ \E r \in ReqIds : Retire(r)

SpecAdmin == InitLoggedIn /\ [][NextAdmin]_vars

AdminOps == {"complete", "cancel", "update_message", "close_problem"}

\* C10: every step of a complete, cancel, update_message or close_problem
\* request whose session does not hold the admin role ends the request with
\* 403 Forbidden and changes no job and no problem report.
C10_AdminRoutesOnlyForAdmin ==
  [][\A r \in ReqIds :
       (/\ reqs'[r].op \in AdminOps
        /\ reqs'[r] # reqs[r]
        /\ reqs'[r].user.role # "admin")
       => /\ reqs'[r].pc = "done" /\ reqs'[r].res = "403:Forbidden"
          /\ jobs' = jobs /\ reports' = reports]_vars

\* a client's close_problem on a job with an open report was refused and the
\* report is still open
C10_Witness ==
  \E r \in ReqIds :
    /\ reqs[r].op = "close_problem" /\ reqs[r].user.role = "client"
    /\ reqs[r].res = "403:Forbidden"
    /\ OpenReports(reqs[r].job) # {}


(* --------------------------- message thread properties ---------------- *)

\* the thread routes called from every session, one request at a time; the
\* first client uploads
NextThreadAccess ==
  \/ UploadStart(1, FirstClient, "map.bin", EmptyForm)
  \/ \E r \in ReqIds : UploadInsert(r)
  \/ \E s \in SessionIds, j \in JobIds, text \in {<<" ">>, <<" ", "h", "i">>} :
       PostStart(1, s, ToString(j), text)
  \/ \E r \in ReqIds : PostSelectJob(r)
  \/ \E r \in ReqIds : PostInsert(r)
  \/ \E r \in ReqIds : PostReread(r)
  \/ \E s \in SessionIds, j \in JobIds : ListStart(1, s, j)
  \/ \E r \in ReqIds : ListSelectJob(r)
  \/ \E r \in ReqIds : ListSelectMessages(r)
  \/ \E r \in ReqIds : Retire(r)

SpecThreadAccess == InitLoggedIn /\ [][NextThreadAccess]_vars

\* the actors the thread of job j is open to: the owner of the job and the
\* admin role
MayUseThread(user, j) ==
  /\ user # NoUser
  /\ j \in 1 .. Len(jobs)
  /\ user.role = "admin" \/ jobs[j].user_id = user.id

ThreadOps == {"list_messages", "post_message"}

\* C11: in every state, the job lookup of a list request and the job lookup
\* of a post request let the same actors through: the request goes on exactly
\* when its actor is the owner of the job or has the admin role, and is
\* answered 403 otherwise; a request without a session is sent to the login
\* page by both routes.
C11_ListAndPostOpenToTheSameActors ==
  [][\A r \in ReqIds :
       /\ (/\ reqs[r].op \in ThreadOps /\ reqs[r].pc = "select_job"
           /\ reqs'[r] # reqs[r])
          => /\ reqs'[r].pc # "done" <=> MayUseThread(reqs[r].user, reqs[r].job)
             /\ reqs'[r].pc = "done" => reqs'[r].res = "403:Forbidden"
       /\ (/\ reqs[r].op = "idle" /\ reqs'[r].op \in ThreadOps
           /\ reqs'[r].user = NoUser)
          => reqs'[r].pc = "done" /\ reqs'[r].res = "302:/login"]_vars

\* on a job of the first client whose thread holds a message of the client
\* and a message of the admin, the list request of the other client was refused
C11_Witness ==
  \E r \in ReqIds, j \in 1 .. Len(jobs) :
    /\ jobs[j].user_id = FirstClient
    /\ \E i \in ThreadOf(j) : messages[i].user_id = FirstClient
    /\ \E i \in ThreadOf(j) : messages[i].user_id = AdminId
    /\ reqs[r].op = "list_messages" /\ reqs[r].user.id = LastClient
    /\ reqs[r].job = j /\ reqs[r].res = "403:Forbidden"

\* the thread of one client's jobs, requests interleaved: the client uploads,
\* the client and the admin post, the client lists, the clock advances
NextThread ==
  \/ \E r \in ReqIds : UploadStart(r, FirstClient, "map.bin", EmptyForm)
  \/ \E r \in ReqIds : UploadInsert(r)
  \/ \E r \in ReqIds, s \in {FirstClient, AdminId}, j \in JobIds :
       PostStart(r, s, ToString(j), <<" ", "h", "i">>)
  \/ \E r \in ReqIds : PostSelectJob(r)
  \/ \E r \in ReqIds : PostInsert(r)
  \/ \E r \in ReqIds : PostReread(r)
  \/ \E r \in ReqIds, j \in JobIds : ListStart(r, FirstClient, j)
  \/ \E r \in ReqIds : ListSelectJob(r)
  \/ \E r \in ReqIds : ListSelectMessages(r)
  \/ Tick
  \/ \E r \in ReqIds : Retire(r)

SpecThread == InitLoggedIn /\ [][NextThread]_vars

\* posting, requests interleaved: the client uploads, the client and the
\* admin post to the thread of any job id
NextPosting ==
  \/ \E r \in ReqIds : UploadStart(r, FirstClient, "map.bin", EmptyForm)
  \/ \E r \in ReqIds : UploadInsert(r)
  \/ \E r \in ReqIds, s \in {FirstClient, AdminId}, j \in JobIds :
       PostStart(r, s, ToString(j), <<" ", "h", "i">>)
  \/ \E r \in ReqIds : PostSelectJob(r)
  \/ \E r \in ReqIds : PostInsert(r)
  \/ \E r \in ReqIds : PostReread(r)
  \/ \E r \in ReqIds : Retire(r)

SpecPosting == InitLoggedIn /\ [][NextPosting]_vars

\* C12: no step changes or removes a stored message; a post request of an
\* actor the thread is open to is never refused at the job lookup; its INSERT
\* adds exactly its own message at the end of the table, whatever other posts
\* are in flight; and when it answers, its message is still stored.
C12_ThreadIsAppendOnly ==
  [][/\ Len(messages') >= Len(messages)
     /\ \A i \in 1 .. Len(messages) : messages'[i] = messages[i]
     /\ \A r \in ReqIds :
          (reqs[r].op = "post_message" /\ reqs'[r] # reqs[r]) =>
            /\ (reqs[r].pc = "select_job" /\ MayUseThread(reqs[r].user, reqs[r].job))
               => reqs'[r].pc = "insert"
            /\ reqs[r].pc = "insert" =>
                 /\ Len(messages') = Len(messages) + 1
                 /\ reqs'[r].last = Len(messages')
                 /\ messages'[Len(messages')].job_id = reqs[r].job
                 /\ messages'[Len(messages')].user_id = reqs[r].user.id
                 /\ messages'[Len(messages')].message = Trim(reqs[r].text)
            /\ reqs[r].pc = "reread" =>
                 /\ reqs'[r].res = "200:message"
                 /\ reqs[r].last \in 1 .. Len(messages')
                 /\ messages'[reqs[r].last].job_id = reqs[r].job
                 /\ messages'[reqs[r].last].user_id = reqs[r].user.id]_vars

\* the posts of the client and of the admin to the same job ran at the same
\* time, both have made their INSERT and neither has answered yet, and the
\* thread holds both messages
C12_Witness ==
  \E r1, r2 \in ReqIds :
    /\ reqs[r1].op = "post_message" /\ reqs[r1].pc = "reread"
    /\ reqs[r2].op = "post_message" /\ reqs[r2].pc = "reread"
    /\ reqs[r1].user.id = FirstClient /\ reqs[r2].user.id = AdminId
    /\ reqs[r1].job = reqs[r2].job
    /\ Cardinality(ThreadOf(reqs[r1].job)) = 2
    /\ messages[reqs[r1].last].user_id = FirstClient
    /\ messages[reqs[r2].last].user_id = AdminId

\* C13: of two newMessage events emitted for the same job, the one emitted
\* first carries the message that was inserted first.
C13_EventsInCommitOrder ==
  \A a, b \in 1 .. Len(emitted) :
    (/\ a < b
     /\ emitted[a].event = "newMessage" /\ emitted[b].event = "newMessage"
     /\ emitted[a].job = emitted[b].job)
    => emitted[a].id < emitted[b].id

\* the ids of the messages of job j in the order of their INSERTs
InsertOrder(j) ==
  CHOOSE o \in [1 .. Cardinality(ThreadOf(j)) -> ThreadOf(j)] :
    \A a, b \in DOMAIN o : a < b => o[a] < o[b]

\* C14: two messages of the same job never have the same created_at, the
\* later one has the later created_at, and a list request returns all the
\* messages of the job in the order of their INSERTs.
C14_ListedInStrictCreationOrder ==
  [][/\ \A a, b \in 1 .. Len(messages') :
          (a < b /\ messages'[a].job_id = messages'[b].job_id)
          => messages'[a].created_at < messages'[b].created_at
     /\ \A r \in ReqIds :
          (/\ reqs[r].op = "list_messages" /\ reqs[r].pc = "select_messages"
           /\ reqs'[r] # reqs[r])
          => reqs'[r].list = InsertOrder(reqs[r].job)]_vars


(* ---------------------- problem report sequence properties ------------ *)

\* the server started on an existing database: the first client has a job
\* that was completed, every account has logged in again, and this process
\* has emitted nothing yet
InitRestarted ==
  /\ users = [u \in UserIds |-> IF u = AdminId THEN "admin" ELSE "client"]
  /\ sessions = [s \in SessionIds |->
       IF s = Anonymous THEN NoUser ELSE [id |-> s, role |-> users[s]]]
  /\ jobs = <<[user_id |-> FirstClient, original_filename |-> "map.bin",
               options |-> FormFields(EmptyForm).options,
               notes |-> FormFields(EmptyForm).notes, status |-> "completed",
               processed_filename |-> "p1.bin",
               vehicle_make |-> FormFields(EmptyForm).vehicle_make,
               vehicle_model |-> FormFields(EmptyForm).vehicle_model,
               vehicle_year |-> FormFields(EmptyForm).vehicle_year,
               ecu_controller |-> FormFields(EmptyForm).ecu_controller,
               client_message |-> Null, created_at |-> 0, updated_at |-> 0]>>
  /\ reports = <<>>
  /\ messages = <<>>
  /\ rooms = [s \in SessionIds |-> {}]
  /\ emitted = <<>>
  /\ reqs = [r \in ReqIds |-> Idle]
  /\ now = 0

\* problem reports, one request at a time: the first client uploads and files
\* reports, the admin closes them
NextProblem ==
  \/ UploadStart(1, FirstClient, "map.bin", EmptyForm)
  \/ \E r \in ReqIds : UploadInsert(r)
  \/ \E j \in JobIds, text \in {<<" ">>, <<" ", "h", "i">>} :
       ReportStart(1, FirstClient, j, text)
  \/ \E r \in ReqIds : ReportSelectJob(r)
  \/ \E r \in ReqIds : ReportSelectReport(r)
  \/ \E r \in ReqIds : ReportInsert(r)
  \/ \E j \in JobIds : CloseStart(1, AdminId, j)
  \/ \E r \in ReqIds : CloseUpdate(r)
  \/ \E r \in ReqIds : Retire(r)

SpecProblem == InitRestarted /\ [][NextProblem]_vars

\* C15: a close_problem request whose UPDATE runs when the job has no open
\* problem report is answered with an error, changes no problem report and
\* emits no event.
C15_ResolveWithoutOpenReportIsRefused ==
  [][\A r \in ReqIds :
       (/\ reqs[r].op = "close_problem" /\ reqs[r].pc = "update"
        /\ reqs'[r] # reqs[r]
        /\ OpenReports(reqs[r].job) = {})
       => /\ reqs'[r].res \notin Success
          /\ reports' = reports
          /\ emitted' = emitted]_vars

\* the events of the admin room, one request at a time: the first client
\* uploads and files reports, the admin closes them; the socket of the admin
\* joins the admin room and leaves, the socket of the client joins it
NextNotify ==
  \/ UploadStart(1, FirstClient, "map.bin", EmptyForm)
  \/ \E r \in ReqIds : UploadInsert(r)
  \/ \E j \in JobIds : ReportStart(1, FirstClient, j, <<" ", "h", "i">>)
  \/ \E r \in ReqIds : ReportSelectJob(r)
  \/ \E r \in ReqIds : ReportSelectReport(r)
  \/ \E r \in ReqIds : ReportInsert(r)
  \/ \E j \in JobIds : CloseStart(1, AdminId, j)
  \/ \E r \in ReqIds : CloseUpdate(r)
  \/ \E s \in {AdminId, FirstClient} : JoinAdmin(s)
  \/ Disconnect(AdminId)
  \/ \E r \in ReqIds : Retire(r)

SpecNotify == InitRestarted /\ [][NextNotify]_vars

\* the events a step emits
NewEvents == SubSeq(emitted', Len(emitted) + 1, Len(emitted'))

\* event e went to the admin room and reached every socket in it
ReachedAdmins(e) == e.room = AdminRoom /\ e.to = {s \in SessionIds : AdminRoom \in rooms[s]}

\* C16: the step that stores a job emits exactly one event, newJob with the
\* id of the job; the step that stores a problem report emits exactly one
\* event, problemReport with the id of the report; the step that resolves the
\* open reports of a job emits exactly one event, problemResolved with the id
\* of the job; each goes to the admin room and reaches every socket that is in
\* the room at that moment; and no event is ever taken back.
C16_OneAdminEventPerCommit ==
  [][/\ Len(emitted') >= Len(emitted)
     /\ \A i \in 1 .. Len(emitted) : emitted'[i] = emitted[i]
     /\ Len(jobs') > Len(jobs) =>
          /\ Len(NewEvents) = 1
          /\ NewEvents[1].event = "newJob" /\ NewEvents[1].id = Len(jobs')
          /\ Len(jobs') = Len(jobs) + 1
          /\ ReachedAdmins(NewEvents[1])
     /\ Len(reports') > Len(reports) =>
          /\ Len(NewEvents) = 1
          /\ NewEvents[1].event = "problemReport" /\ NewEvents[1].id = Len(reports')
          /\ NewEvents[1].job = reports'[Len(reports')].job_id
          /\ Len(reports') = Len(reports) + 1
          /\ ReachedAdmins(NewEvents[1])
     /\ \A i \in 1 .. Len(reports) :
          (reports[i].status = "open" /\ reports'[i].status = "resolved") =>
            /\ Len(NewEvents) = 1
            /\ NewEvents[1].event = "problemResolved"
            /\ NewEvents[1].job = reports[i].job_id
            /\ ReachedAdmins(NewEvents[1])]_vars

\* a job was stored, a problem report was filed and resolved, and the three
\* events reached the sockets of the admin and of the client, both in the
\* admin room
C16_Witness ==
  /\ Len(jobs) = 2
  /\ \E i \in 1 .. Len(reports) : reports[i].status = "resolved"
  /\ \E a, b, c \in 1 .. Len(emitted) :
       /\ emitted[a].event = "newJob" /\ emitted[a].to = {AdminId, FirstClient}
       /\ emitted[b].event = "problemReport" /\ emitted[b].to = {AdminId, FirstClient}
       /\ emitted[c].event = "problemResolved" /\ emitted[c].to = {AdminId, FirstClient}

\* C17: with the owner's requests one after the other on a completed job: a
\* filing request whose check finds an open report of the job is led back to
\* it and stores nothing; a report is stored only when the job has no open
\* report, and it is a new row with status open that leaves the earlier rows
\* as they were; a resolved report never becomes open again; and a filing
\* request whose check finds no open report (none yet, or all resolved) goes
\* on to store one.
C17_ReportSequence ==
  [][/\ \A i \in 1 .. Len(reports) :
          /\ reports'[i].status = "open" => reports[i].status = "open"
          /\ reports'[i].job_id = reports[i].job_id
     /\ \A r \in ReqIds :
          (reqs[r].op = "report_problem" /\ reqs'[r] # reqs[r]) =>
            /\ reqs[r].pc = "select_report" =>
                 IF OpenReports(reqs[r].job) # {}
                 THEN /\ reqs'[r].res = "302:/jobs/:id existing report"
                      /\ reports' = reports
                 ELSE reqs'[r].pc = "insert"
            /\ reqs[r].pc = "insert" =>
                 /\ OpenReports(reqs[r].job) = {}
                 /\ Len(reports') = Len(reports) + 1
                 /\ reports'[Len(reports')].status = "open"
                 /\ reports'[Len(reports')].job_id = reqs[r].job
                 /\ reqs'[r].res = "302:/jobs/:id"
                 /\ reqs'[r].last = Len(reports')]_vars

\* the first report of the job was resolved and is still resolved, and the
\* filing request that came after it has stored a second, distinct report of
\* the same job, which is open
C17_Witness ==
  \E r \in ReqIds :
    /\ Len(reports) = 2
    /\ reports[1].status = "resolved" /\ reports[2].status = "open"
    /\ reports[1].job_id = reports[2].job_id
    /\ reqs[r].op = "report_problem" /\ reqs[r].job = reports[1].job_id
    /\ reqs[r].res = "302:/jobs/:id" /\ reqs[r].last = 2


(* ------------------------- completion and operator message ------------ *)

\* C18: after every step, every completed job has a processed_filename; a
\* complete request without a file never reaches its UPDATE, and the step
\* that answers it 400 changes no job.
C18_CompletedHasProcessedFile ==
  [][/\ \A j \in 1 .. Len(jobs') :
          jobs'[j].status = "completed" => jobs'[j].processed_filename \notin {Null, NoFile}
     /\ \A r \in ReqIds :
          (reqs'[r].op = "complete" /\ reqs'[r] # reqs[r]) =>
            /\ reqs'[r].pc = "update" => reqs'[r].file # NoFile
            /\ reqs'[r].res = "400:Processed file is required" => jobs' = jobs]_vars

\* one job is completed and has its processed file; the complete request
\* without a file for the other job, which was pending, was answered 400 and
\* that job is still pending without a processed file
C18_Witness ==
  \E r \in ReqIds, j \in 1 .. Len(jobs) :
    /\ jobs[j].status = "completed" /\ jobs[j].processed_filename = "p1.bin"
    /\ reqs[r].op = "complete" /\ reqs[r].res = "400:Processed file is required"
    /\ reqs[r].job # j /\ reqs[r].seen = "pending"
    /\ jobs[reqs[r].job].status = "pending"
    /\ jobs[reqs[r].job].processed_filename = Null

\* C19: the UPDATE of an update_message request on a job that exists, in any
\* status, answers with the redirect and writes client_message and
\* updated_at of that job and nothing else: every other column of the job,
\* every other job, the problem reports and the messages stay as they were.
C19_MessageUpdateWritesOnlyTheMessage ==
  [][\A r \in ReqIds :
       (/\ reqs[r].op = "update_message" /\ reqs[r].pc = "update"
        /\ reqs'[r] # reqs[r]
        /\ reqs[r].job \in 1 .. Len(jobs))
       => /\ reqs'[r].res = "302:/admin/jobs/:id"
          /\ Len(jobs') = Len(jobs)
          /\ \A j \in 1 .. Len(jobs) :
               jobs'[j] = IF j = reqs[r].job
                          THEN [jobs[j] EXCEPT !.client_message = reqs[r].row,
                                               !.updated_at = now]
                          ELSE jobs[j]
          /\ reports' = reports /\ messages' = messages]_vars

\* a completed job and a cancelled job both carry the message the admin set,
\* and the last update_message request was answered with the redirect
C19_Witness ==
  \E r \in ReqIds, j1, j2 \in 1 .. Len(jobs) :
    /\ jobs[j1].status = "completed" /\ jobs[j1].client_message = "ready"
    /\ jobs[j1].processed_filename = "p1.bin"
    /\ jobs[j2].status = "cancelled" /\ jobs[j2].client_message = "ready"
    /\ reqs[r].op = "update_message" /\ reqs[r].res = "302:/admin/jobs/:id"

(* ------------------------- jobs of other users ------------------------ *)

\* the pages of a job, one request at a time: both clients upload, the admin
\* completes, both clients ask for the detail page, the edit form, an edit and
\* the download of any job id
NextPages ==
  \/ \E s \in {FirstClient, LastClient} : UploadStart(1, s, "map.bin", EmptyForm)
  \/ \E r \in ReqIds : UploadInsert(r)
  \/ \E j \in JobIds : CompleteStart(1, AdminId, j, "p1.bin")
  \/ \E r \in ReqIds : CompleteUpdate(r)
  \/ \E s \in {FirstClient, LastClient}, j \in JobIds : ViewStart(1, s, j)
  \/ \E r \in ReqIds : ViewSelect(r)
  \/ \E s \in {FirstClient, LastClient}, j \in JobIds : EditFormStart(1, s, j)
  \/ \E r \in ReqIds : EditFormSelect(r)
  \/ \E s \in {FirstClient, LastClient}, j \in JobIds : EditStart(1, s, j, FullForm)
  \/ \E r \in ReqIds : EditSelect(r)
  \/ \E r \in ReqIds : EditUpdate(r)
  \/ \E s \in {FirstClient, LastClient}, j \in JobIds : DownloadStart(1, s, j)
  \/ \E r \in ReqIds : DownloadSelect(r)
  \/ \E r \in ReqIds : Retire(r)

SpecPages == InitLoggedIn /\ [][NextPages]_vars

PageOps == {"view", "edit_form", "edit", "download"}

\* C20: the lookup of a detail, edit-form, edit or download request of a
\* client for a job id the client does not own gives the same answer, 404 Job
\* not found, whether the id belongs to a job of another user, in any status,
\* or to no job, and the step changes no job.
C20_OthersJobsLookLikeNoJob ==
  [][\A r \in ReqIds :
       (/\ reqs[r].op \in PageOps /\ reqs[r].pc = "select"
        /\ reqs'[r] # reqs[r]
        /\ reqs[r].user.role = "client"
        /\ ~(reqs[r].job \in 1 .. Len(jobs) /\ jobs[reqs[r].job].user_id = reqs[r].user.id))
       => /\ reqs'[r].pc = "done"
          /\ reqs'[r].res = "404:Job not found"
          /\ reqs'[r].row = Null
          /\ jobs' = jobs]_vars

\* the other client asked for the detail page of a completed job of the first
\* client and was answered 404
C20_Witness ==
  \E r \in ReqIds :
    /\ reqs[r].op = "view" /\ reqs[r].user.id = LastClient
    /\ reqs[r].job \in 1 .. Len(jobs)
    /\ jobs[reqs[r].job].user_id = FirstClient
    /\ jobs[reqs[r].job].status = "completed"
    /\ reqs[r].res = "404:Job not found"


(* ------------------------------ status events -------------------------- *)

\* C21: the step in which a complete or cancel request changes the status of
\* a job emits an event to the room of that job, and the event reaches every
\* socket that is in the room at that moment.
C21_StatusChangeIsAnnounced ==
  [][\A j \in 1 .. Len(jobs) :
       jobs'[j].status # jobs[j].status =>
         \E i \in (Len(emitted) + 1) .. Len(emitted') :
           /\ emitted'[i].room = JobRoom(j)
           /\ emitted'[i].job = j
           /\ emitted'[i].to = {s \in SessionIds : JobRoom(j) \in rooms[s]}]_vars

(* ------------------------------ download name -------------------------- *)

\* option forms: none active, two active with codes, all active
AllOnForm ==
  [dpf_off |-> "on", egr_off |-> "on", adblue_off |-> "on", dtc_off |-> "on",
   dtc_codes |-> "P0401", immo_off |-> "on", notes |-> Undef, vehicle_make |-> Undef,
   vehicle_model |-> Undef, vehicle_year |-> Undef, ecu_controller |-> Undef]

\* downloads, one request at a time: the first client uploads files of every
\* name with every option form, the admin completes, the client downloads
NextDownload ==
  \/ \E file \in FileNames, form \in {EmptyForm, FullForm, AllOnForm} :
       UploadStart(1, FirstClient, file, form)
  \/ \E r \in ReqIds : UploadInsert(r)
  \/ \E j \in JobIds : CompleteStart(1, AdminId, j, "p1.bin")
  \/ \E r \in ReqIds : CompleteUpdate(r)
  \/ \E j \in JobIds : DownloadStart(1, FirstClient, j)
  \/ \E r \in ReqIds : DownloadSelect(r)
  \/ \E r \in ReqIds : Retire(r)

SpecDownload == InitLoggedIn /\ [][NextDownload]_vars

\* the tags of the active options of a form, in the order DPF, EGR, AdBlue,
\* DTC with codes, IMMO
TagsOf(form) ==
  (IF Truthy(form.dpf_off) THEN <<"(DPF_OFF)">> ELSE <<>>)
  \o (IF Truthy(form.egr_off) THEN <<"(EGR_OFF)">> ELSE <<>>)
  \o (IF Truthy(form.adblue_off) THEN <<"(AdBlue_OFF)">> ELSE <<>>)
  \o (IF Truthy(form.dtc_off) THEN <<"(DTC_", OrEmpty(form.dtc_codes), "_OFF)">> ELSE <<>>)
  \o (IF Truthy(form.immo_off) THEN <<"(IMMO_OFF)">> ELSE <<>>)

\* the original name with the tags before its extension and nothing else
TaggedName(name, form) ==
  CASE name = "map.bin" -> <<"map">> \o TagsOf(form) \o <<".", "bin">>
    [] name = "my.map.bin" -> <<"my", ".", "map">> \o TagsOf(form) \o <<".", "bin">>
    [] OTHER -> <<name>> \o TagsOf(form)

\* C22: the name a download is sent under is the original name of the job
\* with the tags of its active options, in the fixed order, before the
\* extension and nothing else added; so jobs with the same original name and
\* the same options get the same name, and jobs with the same original name
\* whose active options differ get different names.
C22_DownloadNameIsOriginalPlusTags ==
  [][\A r \in ReqIds :
       (/\ reqs[r].op = "download" /\ reqs[r].pc = "select"
        /\ reqs'[r].res = "200:download")
       => \E form \in {EmptyForm, FullForm, AllOnForm} :
            /\ jobs[reqs[r].job].options = JSONstringify(FormOptions(form))
            /\ reqs'[r].list = TaggedName(jobs[reqs[r].job].original_filename, form)]_vars


(* ------------------------------ roles and sessions --------------------- *)

\* roles, one request at a time: the admin and the first client log out and
\* in, call the user edit on each other and on themselves, and call complete;
\* the client uploads
NextRoles ==
  \/ \E s \in {AdminId, FirstClient} : Login(s)
  \/ \E s \in {AdminId, FirstClient} : Logout(s)
  \/ \E s, u \in {AdminId, FirstClient}, role \in FormRoles : UserEditStart(1, s, u, role)
  \/ \E r \in ReqIds : UserEditUpdate(r)
  \/ UploadStart(1, FirstClient, "map.bin", EmptyForm)
  \/ \E r \in ReqIds : UploadInsert(r)
  \/ \E s \in {AdminId, FirstClient}, j \in JobIds : CompleteStart(1, s, j, "p1.bin")
  \/ \E r \in ReqIds : CompleteUpdate(r)
  \/ \E r \in ReqIds : Retire(r)

SpecRoles == InitLoggedIn /\ [][NextRoles]_vars

\* C23: a step that changes a role in the users table changes no session; a
\* session gets its role only in the step that issues it, and it is the role
\* the users table holds at that moment; and an admin route lets a request
\* through exactly when the role in its session is admin, whatever the users
\* table holds for that user by then.
C23_SessionKeepsItsRole ==
  [][/\ users' # users => sessions' = sessions
     /\ \A s \in SessionIds :
          sessions'[s] # sessions[s] =>
            \/ sessions'[s] = NoUser
            \/ /\ sessions[s] = NoUser
               /\ sessions'[s].role = users[sessions'[s].id]
     /\ \A r \in ReqIds :
          (reqs[r].op = "idle" /\ reqs'[r].op \in {"complete", "user_edit"}) =>
            /\ \E s \in SessionIds : reqs'[r].user = sessions[s]
            /\ reqs'[r].res = "403:Forbidden" <=> reqs'[r].user.role # "admin"]_vars

\* the first client was made admin in the users table while logged in: the
\* session still holds the role client, and its complete request, made after
\* the edit, was answered 403
C23_Witness ==
  \E r \in ReqIds :
    /\ users[FirstClient] = "admin"
    /\ sessions[FirstClient] = [id |-> FirstClient, role |-> "client"]
    /\ reqs[r].op = "complete" /\ reqs[r].user = sessions[FirstClient]
    /\ reqs[r].res = "403:Forbidden"


(* ------------------------------ job rooms ------------------------------ *)

\* the rooms of the jobs, one request at a time, on a database with one job
\* of the first client: the first client and the admin post to the job under
\* the texts of JobParams; the sockets of the two clients join job rooms, the
\* socket of the admin joins the admin room, the socket of the first client
\* leaves
NextRooms ==
  \/ \E s \in {AdminId, FirstClient}, id \in JobParams : PostStart(1, s, id, <<" ", "h", "i">>)
  \/ \E r \in ReqIds : PostSelectJob(r)
  \/ \E r \in ReqIds : PostInsert(r)
  \/ \E r \in ReqIds : PostReread(r)
  \/ \E s \in {FirstClient, LastClient}, j \in JobIds : JoinJob(s, j)
  \/ JoinAdmin(AdminId)
  \/ Disconnect(FirstClient)
  \/ \E r \in ReqIds : Retire(r)

SpecRooms == InitRestarted /\ [][NextRooms]_vars

\* C24: every newMessage event a step emits goes to the room of the job its
\* message is stored under, and reaches the sockets that are in that room and
\* no other socket.
C24_NewMessageOnlyToItsJobRoom ==
  [][\A i \in 1 .. Len(NewEvents) :
       NewEvents[i].event = "newMessage" =>
         LET J == messages'[NewEvents[i].id].job_id
         IN /\ NewEvents[i].room = JobRoom(J)
            /\ NewEvents[i].to = Members(JobRoom(J))]_vars


(* ------------------------------ announcements -------------------------- *)

\* uploads, reports and posts with their events, one request at a time, on a
\* database with one completed job of the first client: the two clients
\* upload (with and without a file), file reports and post, with and without
\* a text; the admin reads a job, the open reports and a thread; the socket
\* of the admin joins the admin room and the room of the first job
NextAnnounce ==
  \/ \E s \in {FirstClient, LastClient}, file \in UploadFiles :
       UploadStart(1, s, file, EmptyForm)
  \/ \E r \in ReqIds : UploadInsert(r)
  \/ \E s \in {FirstClient, LastClient}, text \in {<<" ">>, <<" ", "h", "i">>} :
       ReportStart(1, s, 1, text)
  \/ \E r \in ReqIds : ReportSelectJob(r)
  \/ \E r \in ReqIds : ReportSelectReport(r)
  \/ \E r \in ReqIds : ReportInsert(r)
  \/ \E s \in {FirstClient, LastClient}, text \in {<<" ">>, <<" ", "h", "i">>} :
       PostStart(1, s, "1", text)
  \/ \E r \in ReqIds : PostSelectJob(r)
  \/ \E r \in ReqIds : PostInsert(r)
  \/ \E r \in ReqIds : PostReread(r)
  \/ \E j \in JobIds : AdminViewStart(1, AdminId, j)
  \/ \E r \in ReqIds : AdminViewSelect(r)
  \/ OpenProblemsStart(1, AdminId)
  \/ \E r \in ReqIds : OpenProblemsSelect(r)
  \/ ListStart(1, AdminId, 1)
  \/ \E r \in ReqIds : ListSelectJob(r)
  \/ \E r \in ReqIds : ListSelectMessages(r)
  \/ JoinAdmin(AdminId)
  \/ JoinJob(AdminId, 1)
  \/ \E r \in ReqIds : Retire(r)

SpecAnnounce == InitRestarted /\ [][NextAnnounce]_vars

\* the record event e announces is in the tables J, R and M
Stored(e, J, R, M) ==
  CASE e.event = "newJob" -> e.id \in 1 .. Len(J)
    [] e.event = "problemReport" -> e.id \in 1 .. Len(R) /\ R[e.id].job_id = e.job
    [] e.event = "newMessage" -> e.id \in 1 .. Len(M) /\ M[e.id].job_id = e.job
    [] OTHER -> TRUE

\* the ids in the list a read answered with
Listed(q) == {q.list[i] : i \in 1 .. Len(q.list)}

\* C25: after every step, each newJob, problemReport and newMessage event
\* emitted so far announces a record that is stored; a step that ends an
\* upload, a filing or a post with a refusal or an error emits nothing, and
\* such an event is emitted only by the request's last step, which answers
\* with success; and a read answered afterwards finds what was announced: the
\* job page of an announced job is served, the open reports list every
\* announced report that is still open, and the thread of a job lists every
\* announced message of the job.
C25_AnnouncedRecordsAreStored ==
  [][/\ \A i \in 1 .. Len(emitted') : Stored(emitted'[i], jobs', reports', messages')
     /\ \A r \in ReqIds :
          (Finishes(r) /\ reqs[r].op \in {"upload", "report_problem", "post_message"}
           /\ reqs'[r].res \notin Success) => emitted' = emitted
     /\ \A i \in 1 .. Len(NewEvents) :
          NewEvents[i].event \in {"newJob", "problemReport", "newMessage"} =>
            \E r \in ReqIds : Finishes(r) /\ reqs'[r].res \in Success
     /\ \A r \in ReqIds : \A i \in 1 .. Len(emitted) :
          /\ (/\ Finishes(r) /\ reqs[r].op = "admin_view"
              /\ emitted[i].event = "newJob" /\ emitted[i].id = reqs[r].job)
             => reqs'[r].res = "200:admin_job_detail"
          /\ (/\ Finishes(r) /\ reqs[r].op = "open_problems"
              /\ emitted[i].event = "problemReport"
              /\ reports[emitted[i].id].status = "open")
             => emitted[i].id \in Listed(reqs'[r])
          /\ (/\ Finishes(r) /\ reqs[r].op = "list_messages" /\ reqs[r].pc = "select_messages"
              /\ emitted[i].event = "newMessage" /\ emitted[i].job = reqs[r].job)
             => emitted[i].id \in Listed(reqs'[r])]_vars

\* a job, a report and a message were announced to the socket of the admin,
\* and the admin's read of the thread, answered after that, lists the
\* announced message
C25_Witness ==
  /\ \E a, b, c \in 1 .. Len(emitted) :
       /\ emitted[a].event = "newJob" /\ AdminId \in emitted[a].to
       /\ emitted[b].event = "problemReport" /\ AdminId \in emitted[b].to
       /\ emitted[c].event = "newMessage" /\ AdminId \in emitted[c].to
       /\ reqs[1].op = "list_messages" /\ reqs[1].res = "200:messages"
       /\ emitted[c].id \in Listed(reqs[1])

====
